---- MODULE Spec2Model ----
(***************************************************************************)
(* State-machine model of create_x_auto_boost.py: the poll loop, one       *)
(* mailbox pass (process_mailbox), the link extractor and the order        *)
(* client.  The mailbox server and the order API are the environment:      *)
(* every call to them returns one of the outcomes the library can produce. *)
(***************************************************************************)
EXTENDS Integers, Sequences, FiniteSets, TLC

\* ------------------------------------------------------------------ bounds
MaxPasses == 2      \* passes that the model follows, over all processes
MaxMsgs == 2        \* messages in the mailbox
MaxAnchors == 2     \* anchors of a document given to the extractor alone

\* --------------------------------------------------------------- constants
FOLLOWERS_SERVICE_ID == 9011
FOLLOWERS_QUANTITY == 300

\* SERVICES, in the iteration (insertion) order of the dict
Metrics == <<"likes", "retweets", "comments", "bookmarks", "impressions">>

SERVICES ==
    [likes |-> 9326, retweets |-> 5062, comments |-> 98,
     bookmarks |-> 1017, impressions |-> 1375]

\* QUANTITIES as written in the source
SourceQuantities ==
    [likes |-> 50, retweets |-> 10, comments |-> 5,
     bookmarks |-> 20, impressions |-> 2000]

\* The catalogs the configuration section is run with: the source's, and one
\* with a metric set to 0, a metric set below 0 and a metric left out.
Catalogs ==
    { SourceQuantities,
      [likes |-> 0, retweets |-> 10, comments |-> -5, impressions |-> 2000] }

\* QUANTITIES.get(metric, 0)
QuantityGet(q, metric) == IF metric \in DOMAIN q THEN q[metric] ELSE 0

\* ------------------------------------------------------------ link extractor
\* An href "https://<host>/<path[1]>/<path[2]>/...<frag>" is the record
\* [host, path, frag]; a string is split at "/" into its segments.
UserTokens == {"alice", "bob"}      \* strings matching [A-Za-z0-9_]+
DigitTokens == {"42", "43", "7"}    \* strings matching \d+

\* 'status' in href
ContainsStatus(href) == \E i \in DOMAIN href.path : href.path[i] = "status"

\* the /{username}/status/{id} part of the three patterns
StatusPath(href) ==
    /\ Len(href.path) >= 3
    /\ href.path[1] \in UserTokens
    /\ href.path[2] = "status"
    /\ href.path[3] \in DigitTokens

\* FEED_LINK_RE: https?://rss\.xcancel\.com/([A-Za-z0-9_]+)/status/(\d+)#m
MatchFeed(href) ==
    /\ href.host = "rss.xcancel.com"
    /\ StatusPath(href)
    /\ Len(href.path) = 3
    /\ href.frag = "#m"

\* https?://xcancel\.com/([A-Za-z0-9_]+)/status/(\d+)
MatchXcancel(href) ==
    /\ href.host = "xcancel.com"
    /\ StatusPath(href)

\* the host name ends with the string d (the host names of the model)
EndsWith(host, d) ==
    \/ host = d
    \/ <<host, d>> \in { <<"rss.xcancel.com", "xcancel.com">>,
                         <<"fixupx.com", "x.com">> }

\* (?:twitter\.com|x\.com)/([A-Za-z0-9_]+)/status/(\d+), searched anywhere in
\* the href: nothing ties the start of the pattern to the start of the host
MatchDirect(href) ==
    /\ (EndsWith(href.host, "twitter.com") \/ EndsWith(href.host, "x.com"))
    /\ StatusPath(href)

\* f"https://x.com/{username}/status/{tweet_id}", as its "/"-separated segments
CanonicalLink(username, tweet_id) ==
    <<"https:", "", "x.com", username, "status", tweet_id>>

NoLink == <<>>      \* None

RECURSIVE extract_feed_link_from_html(_)
extract_feed_link_from_html(anchors) ==
    IF anchors = <<>> THEN NoLink
    ELSE LET href == Head(anchors) IN
         IF ContainsStatus(href)
              /\ (MatchFeed(href) \/ MatchXcancel(href) \/ MatchDirect(href))
         THEN CanonicalLink(href.path[1], href.path[3])
         ELSE extract_feed_link_from_html(Tail(anchors))

\* link.split("/")[3], None when the index is out of range
UsernameOf(link) == IF Len(link) >= 4 THEN link[4] ELSE ""

\* ------------------------------------------------------------- order client
\* What the HTTP call does: a JSON body, a body that is no JSON, or an
\* exception of requests.post.
OrderOutcomes == {"json", "text", "neterror"}

\* The variant that lets the exception of requests.post through.
create_jap_order_reraise(outcome) ==
    CASE outcome = "json" -> [raised |-> FALSE, res |-> "payload"]
      [] outcome = "text" -> [raised |-> FALSE, res |-> "raw_text"]
      [] OTHER            -> [raised |-> TRUE, res |-> "error"]

create_jap_order(outcome) ==
    CASE outcome = "json" -> [raised |-> FALSE, res |-> "payload"]
      [] outcome = "text" -> [raised |-> FALSE, res |-> "raw_text"]
      [] OTHER            -> [raised |-> FALSE, res |-> "error"]

\* ------------------------------------------------------------------ messages
Anchor(host, path, frag) == [host |-> host, path |-> path, frag |-> frag]

\* kind: the MIME structure of the message; anchors: the <a href> of its body
Bodies ==
    { [kind |-> "multipart_html",
       anchors |-> << Anchor("example.com", <<"about">>, ""),
                      Anchor("rss.xcancel.com", <<"alice", "status", "42">>, "#m") >>],
      [kind |-> "plain",
       anchors |-> << Anchor("xcancel.com", <<"bob", "status", "7">>, ""),
                      Anchor("twitter.com", <<"alice", "status", "42">>, "") >>],
      [kind |-> "html",
       anchors |-> << Anchor("rss.xcancel.com", <<"alice", "status", "42">>, "") >>],
      [kind |-> "multipart_nohtml",
       anchors |-> << Anchor("x.com", <<"bob", "status", "7">>, "") >>] }

MsgIds == 1 .. MaxMsgs

\* Lines 165-182: the html part, else the payload in <pre>; for a multipart
\* message without text/html part get_payload(decode=True) is None and
\* .decode raises.
SelectContent(body) ==
    IF body.kind = "multipart_nohtml"
    THEN [raised |-> TRUE, html |-> <<>>]
    ELSE [raised |-> FALSE, html |-> body.anchors]

\* ------------------------------------------------------------- configuration
\* os.getenv(name) without default: None when the variable is not set, else
\* its string, which may be empty
NoValue == "<None>"

EnvValues == {NoValue, "", "value"}

Required == {"IMAP_USER", "IMAP_PASS", "JAP_API_KEY"}

\* the truth value of an os.getenv result
Truthy(v) == v # NoValue /\ v # ""

\* all([IMAP_USER, IMAP_PASS, JAP_API_KEY]) with the API key left out
ConfiguredWithoutKey(e) == Truthy(e["IMAP_USER"]) /\ Truthy(e["IMAP_PASS"])

\* all([IMAP_USER, IMAP_PASS, JAP_API_KEY])
Configured(e) ==
    Truthy(e["IMAP_USER"]) /\ Truthy(e["IMAP_PASS"]) /\ Truthy(e["JAP_API_KEY"])

\* --------------------------------------------------------------------- state
VARIABLES
    pc,                     \* where the process is
    cycle_count,            \* the poll loop's counter
    seen_accounts_memory,   \* the module-level set of usernames
    QUANTITIES,             \* the quantity table of the configuration section
    env,                    \* IMAP_USER, IMAP_PASS, JAP_API_KEY as os.getenv gave them
    exit_status,            \* <<>> while the process runs, <<n>> after SystemExit(n)
    html,                   \* the anchors of a document given to the extractor alone
    found,                  \* the results of the extractor's runs on html, in order
    mailbox,                \* the server: msgid -> [body, seen]
    M,                      \* the IMAP4 object of the pass: its state, or "none"
    new_accounts_found,
    ids,                    \* the message ids the for loop has still to visit
    msgid,                  \* the loop variable (0: none)
    link,                   \* the extracted link of the current message
    username,
    metric_i,               \* position of the loop over SERVICES.items()
    res,                    \* the last result of create_jap_order
    trace,                  \* history: what the current pass did, in order
    orders,                 \* history: the orders this process sent, in order
    pass0,                  \* history: the set and the mailbox when the pass began
    passes,                 \* history: the passes started, over all processes
    boosted_before          \* history: usernames boosted by earlier processes

vars ==
    <<pc, cycle_count, seen_accounts_memory, QUANTITIES, env, exit_status,
      html, found, mailbox, M,
      new_accounts_found, ids, msgid, link, username, metric_i, res,
      trace, orders, pass0, passes, boosted_before>>

locals == <<ids, msgid, link, username, metric_i, res>>
startup == <<env, exit_status>>
extractor == <<html, found>>
history == <<pass0, passes, boosted_before>>

Ev(ev, m, sid, l, qty, st) ==
    [ev |-> ev, msgid |-> m, sid |-> sid, link |-> l, qty |-> qty, st |-> st]

Order(sid, l, qty, m) == [sid |-> sid, link |-> l, qty |-> qty, msgid |-> m]

\* The ids of a successful UNSEEN search, in the server's (ascending) order.
RECURSIVE UnseenFrom(_, _)
UnseenFrom(mb, i) ==
    IF i > MaxMsgs THEN <<>>
    ELSE IF mb[i].seen THEN UnseenFrom(mb, i + 1)
         ELSE <<i>> \o UnseenFrom(mb, i + 1)

\* The ids of a search without the UNSEEN criterion.
AllMessages(mb) == [i \in 1 .. MaxMsgs |-> i]

Unseen(mb) == UnseenFrom(mb, 1)

\* M.store(msgid, "+FLAGS", "\\Seen") answered OK
MarkSeen(mb, m) == [mb EXCEPT ![m].seen = TRUE]

Init ==
    /\ pc = "start"
    /\ cycle_count = 0
    /\ seen_accounts_memory = {}
    /\ QUANTITIES \in Catalogs
    /\ env \in [Required -> EnvValues]
    /\ exit_status = <<>>
    /\ html = <<>>
    /\ found = <<>>
    /\ mailbox \in [MsgIds -> [body : Bodies, seen : {FALSE}]]
    /\ M = "none"
    /\ new_accounts_found = FALSE
    /\ ids = <<>>
    /\ msgid = 0
    /\ link = NoLink
    /\ username = ""
    /\ metric_i = 1
    /\ res = "none"
    /\ trace = <<>>
    /\ orders = <<>>
    /\ pass0 = [seen |-> {}, mailbox |-> mailbox]
    /\ passes = 0
    /\ boosted_before = {}

\* -------------------------------------------------------------------- __main__
\* if not all([IMAP_USER, IMAP_PASS, JAP_API_KEY]): raise SystemExit(1);
\* otherwise the start-up log lines and cycle_count = 0
Startup ==
    /\ pc = "start"
    /\ IF Configured(env)
       THEN /\ pc' = "loop"
            /\ UNCHANGED exit_status
       ELSE /\ pc' = "exited"
            /\ exit_status' = <<1>>
    /\ cycle_count' = 0
    /\ UNCHANGED <<seen_accounts_memory, QUANTITIES, env, extractor, mailbox,
                   M, new_accounts_found, locals, trace, orders, history>>

\* ----------------------------------------------------------------- poll loop
\* Where the loop goes when process_mailbox raises: except Exception, the log
\* line, then time.sleep(POLL_INTERVAL).
LoopUncaught == "crashed"

LoopExcept == "sleep"

\* Where an exception raised inside the try block of process_mailbox goes:
\* except Exception, then the finally clause.
PassUncaught == "crashed"

PassExcept == "finally"

\* A poll loop that would begin every pass with an empty set.
StartCycleForgetting ==
    /\ pc = "loop"
    /\ passes < MaxPasses
    /\ passes' = passes + 1
    /\ cycle_count' = cycle_count + 1
    /\ pc' = "connect"
    /\ trace' = <<>>
    /\ seen_accounts_memory' = {}
    /\ pass0' = [seen |-> seen_accounts_memory', mailbox |-> mailbox]
    /\ UNCHANGED <<QUANTITIES, startup, extractor, mailbox, M,
                   new_accounts_found, locals, orders, boosted_before>>

\* while True: cycle_count += 1; process_mailbox()
StartCycle ==
    /\ pc = "loop"
    /\ passes < MaxPasses
    /\ passes' = passes + 1
    /\ cycle_count' = cycle_count + 1
    /\ pc' = "connect"
    /\ trace' = <<>>
    /\ pass0' = [seen |-> seen_accounts_memory, mailbox |-> mailbox]
    /\ UNCHANGED <<seen_accounts_memory, QUANTITIES, startup, extractor, mailbox, M,
                   new_accounts_found, locals, orders, boosted_before>>

\* time.sleep(POLL_INTERVAL), then the next iteration (the history of the
\* pass ends with the wait)
Sleep ==
    /\ pc = "sleep"
    /\ pc' = "loop"
    /\ trace' = <<>>
    /\ UNCHANGED <<cycle_count, seen_accounts_memory, QUANTITIES, startup, extractor, mailbox, M,
                   new_accounts_found, locals, orders, history>>

\* ------------------------------------------------------------ process_mailbox
Log(e) == trace' = Append(trace, e)

\* An exception inside the try block: logged by the except clause.
Raise(where) ==
    /\ pc' = PassExcept
    /\ Log(Ev("raise", msgid, 0, NoLink, 0, where))

\* M = imaplib.IMAP4_SSL(...), before the try block; new_accounts_found = False
Connect ==
    /\ pc = "connect"
    /\ \E ok \in BOOLEAN :
         IF ok
         THEN /\ M' = "NONAUTH"
              /\ new_accounts_found' = FALSE
              /\ pc' = "login"
              /\ Log(Ev("connect", 0, 0, NoLink, 0, "OK"))
         ELSE /\ UNCHANGED <<M, new_accounts_found>>
              /\ pc' = LoopExcept
              /\ Log(Ev("raise", 0, 0, NoLink, 0, "connect"))
    /\ UNCHANGED <<cycle_count, seen_accounts_memory, QUANTITIES, startup, extractor, mailbox,
                   locals, orders, history>>

\* M.login(IMAP_USER, IMAP_PASS)
Login ==
    /\ pc = "login"
    /\ \E ok \in BOOLEAN :
         IF ok
         THEN /\ M' = "AUTH"
              /\ pc' = "select"
              /\ UNCHANGED trace
         ELSE /\ UNCHANGED M
              /\ Raise("login")
    /\ UNCHANGED <<cycle_count, seen_accounts_memory, QUANTITIES, startup, extractor, mailbox,
                   new_accounts_found, locals, orders, history>>

\* M.select("INBOX"): its answer is not looked at
Select ==
    /\ pc = "select"
    /\ \E st \in {"OK", "NO", "raise"} :
         CASE st = "OK" -> /\ M' = "SELECTED"
                           /\ pc' = "search"
                           /\ UNCHANGED trace
           [] st = "NO" -> /\ UNCHANGED <<M, trace>>
                           /\ pc' = "search"
           [] OTHER     -> /\ UNCHANGED M
                           /\ Raise("select")
    /\ UNCHANGED <<cycle_count, seen_accounts_memory, QUANTITIES, startup, extractor, mailbox,
                   new_accounts_found, locals, orders, history>>

\* M.search without the test of its answer: the messages are walked also when
\* the listing was refused.
SearchUnchecked ==
    /\ pc = "search"
    /\ \E st \in {"OK", "NO", "raise"} :
         CASE st = "OK" /\ M = "SELECTED" ->
                /\ ids' = Unseen(mailbox)
                /\ pc' = "next"
                /\ Log(Ev("search", 0, 0, NoLink, 0, "OK"))
           [] st = "NO" /\ M = "SELECTED" ->
                /\ ids' = Unseen(mailbox)
                /\ pc' = "next"
                /\ Log(Ev("search", 0, 0, NoLink, 0, "NO"))
           [] OTHER ->
                /\ UNCHANGED ids
                /\ Raise("search")
    /\ UNCHANGED <<cycle_count, seen_accounts_memory, QUANTITIES, startup, extractor, mailbox, M,
                   new_accounts_found, msgid, link, username, metric_i, res,
                   orders, history>>

\* typ, data = M.search(None, '(UNSEEN FROM ...)'); ids = data[0].split()
\* (imaplib refuses SEARCH, by raising, when no mailbox is selected)
Search ==
    /\ pc = "search"
    /\ \E st \in {"OK", "NO", "raise"} :
         CASE st = "OK" /\ M = "SELECTED" ->
                /\ ids' = Unseen(mailbox)
                /\ pc' = "next"
                /\ Log(Ev("search", 0, 0, NoLink, 0, "OK"))
           [] st = "NO" /\ M = "SELECTED" ->
                /\ UNCHANGED ids
                /\ pc' = "search_failed"
                /\ Log(Ev("search", 0, 0, NoLink, 0, "NO"))
           [] OTHER ->
                /\ UNCHANGED ids
                /\ Raise("search")
    /\ UNCHANGED <<cycle_count, seen_accounts_memory, QUANTITIES, startup, extractor, mailbox, M,
                   new_accounts_found, msgid, link, username, metric_i, res,
                   orders, history>>

\* if typ != "OK": M.logout(); return   (the finally clause runs on the return,
\* and after the except clause when this logout raises)
SearchFailed ==
    /\ pc = "search_failed"
    /\ \E ok \in BOOLEAN :
         /\ Log(Ev("logout", 0, 0, NoLink, 0, IF ok THEN "OK" ELSE "raise"))
         /\ pc' = IF ok THEN "finally" ELSE PassExcept
    /\ M' = "LOGOUT"
    /\ UNCHANGED <<cycle_count, seen_accounts_memory, QUANTITIES, startup, extractor, mailbox,
                   new_accounts_found, locals, orders, history>>

\* for msgid in ids, walked from the end of the listing
NextMessageReversed ==
    /\ pc = "next"
    /\ IF ids = <<>>
       THEN /\ pc' = "finally"
            /\ UNCHANGED <<ids, msgid>>
       ELSE /\ msgid' = ids[Len(ids)]
            /\ ids' = SubSeq(ids, 1, Len(ids) - 1)
            /\ pc' = "fetch"
    /\ res' = "none"
    /\ UNCHANGED <<cycle_count, seen_accounts_memory, QUANTITIES, startup, extractor, mailbox, M,
                   new_accounts_found, link, username, metric_i,
                   trace, orders, history>>

\* for msgid in ids:   and, after the loop, the session summary
\* (res is only logged, right after each call: it is forgotten here)
NextMessage ==
    /\ pc = "next"
    /\ IF ids = <<>>
       THEN /\ pc' = "finally"
            /\ UNCHANGED <<ids, msgid>>
       ELSE /\ msgid' = Head(ids)
            /\ ids' = Tail(ids)
            /\ pc' = "fetch"
    /\ res' = "none"
    /\ UNCHANGED <<cycle_count, seen_accounts_memory, QUANTITIES, startup, extractor, mailbox, M,
                   new_accounts_found, link, username, metric_i,
                   trace, orders, history>>

\* M.fetch without the continue: a message whose fetch is not OK is handled
\* like a fetched one.
FetchNoContinue ==
    /\ pc = "fetch"
    /\ \E st \in {"OK", "NO", "raise"} :
         CASE st = "OK" -> /\ pc' = "extract"
                           /\ Log(Ev("fetch", msgid, 0, NoLink, 0, "OK"))
           [] st = "NO" -> /\ pc' = "extract"
                           /\ Log(Ev("fetch", msgid, 0, NoLink, 0, "NO"))
           [] OTHER     -> Raise("fetch")
    /\ UNCHANGED <<cycle_count, seen_accounts_memory, QUANTITIES, startup, extractor, mailbox, M,
                   new_accounts_found, locals, orders, history>>

\* typ, msgdata = M.fetch(msgid, "(RFC822)"); if typ != "OK": continue
Fetch ==
    /\ pc = "fetch"
    /\ \E st \in {"OK", "NO", "raise"} :
         CASE st = "OK" -> /\ pc' = "extract"
                           /\ Log(Ev("fetch", msgid, 0, NoLink, 0, "OK"))
           [] st = "NO" -> /\ pc' = "next"
                           /\ Log(Ev("fetch", msgid, 0, NoLink, 0, "NO"))
           [] OTHER     -> Raise("fetch")
    /\ UNCHANGED <<cycle_count, seen_accounts_memory, QUANTITIES, startup, extractor, mailbox, M,
                   new_accounts_found, locals, orders, history>>

\* if not link, without the test: every message goes on to the orders
AfterExtractUnchecked(l) == "followers"

\* if not link: (mark seen,) continue
AfterExtract(l) == IF l = NoLink THEN "store_empty" ELSE "followers"

\* the content selection, then link = extract_feed_link_from_html(html)
Extract ==
    /\ pc = "extract"
    /\ LET c == SelectContent(mailbox[msgid].body) IN
         IF c.raised
         THEN /\ Raise("content")
              /\ UNCHANGED link
         ELSE /\ link' = extract_feed_link_from_html(c.html)
              /\ pc' = AfterExtract(link')
              /\ Log(Ev("extract", msgid, 0, link', 0, "OK"))
    /\ UNCHANGED <<cycle_count, seen_accounts_memory, QUANTITIES, startup, extractor, mailbox, M,
                   new_accounts_found, ids, msgid, username, metric_i, res,
                   orders, history>>

\* The three answers of M.store(msgid, "+FLAGS", "\\Seen"): the flag is set,
\* the server refuses (the answer is not looked at), the call raises.
StoreCall ==
    \E st \in {"OK", "NO", "raise"} :
       CASE st = "OK" -> /\ mailbox' = MarkSeen(mailbox, msgid)
                         /\ pc' = "next"
                         /\ Log(Ev("store", msgid, 0, NoLink, 0, "OK"))
         [] st = "NO" -> /\ UNCHANGED mailbox
                         /\ pc' = "next"
                         /\ Log(Ev("store", msgid, 0, NoLink, 0, "NO"))
         [] OTHER     -> /\ UNCHANGED mailbox
                         /\ Raise("store")

\* if not link: M.store(...); continue
StoreEmpty ==
    /\ pc = "store_empty"
    /\ StoreCall
    /\ UNCHANGED <<cycle_count, seen_accounts_memory, QUANTITIES, startup, extractor, M,
                   new_accounts_found, locals, orders, history>>

\* if username and username not in seen_accounts_memory, without the test of
\* the set
IsNewAccountAlways(u, seen) == u # ""

\* if username and username not in seen_accounts_memory
IsNewAccount(u, seen) == u # "" /\ u \notin seen

\* if qty <= 0: continue, with the test taken as qty < 0
MetricEnabledFromZero(qty) == ~(qty < 0)

\* if qty <= 0: continue
MetricEnabled(qty) == ~(qty <= 0)

\* One call of create_jap_order from the message loop: the request is sent,
\* and the loop goes to `after` unless the call raises.
PlaceOrder(sid, qty, after) ==
    \E outcome \in OrderOutcomes :
       LET r == create_jap_order(outcome) IN
         /\ orders' = Append(orders, Order(sid, link, qty, msgid))
         /\ res' = r.res
         /\ trace' = trace \o <<Ev("order", msgid, sid, link, qty, "sent")>>
                           \o (IF r.raised
                               THEN <<Ev("raise", msgid, 0, NoLink, 0, "order")>>
                               ELSE <<>>)
         /\ pc' = IF r.raised THEN PassExcept ELSE after

\* The followers step with the username added only when the order did not end
\* with an error.
FollowersAddOnSuccess ==
    /\ pc = "followers"
    /\ username' = UsernameOf(link)
    /\ IF IsNewAccount(username', seen_accounts_memory)
       THEN /\ PlaceOrder(FOLLOWERS_SERVICE_ID, FOLLOWERS_QUANTITY, "engagement")
            /\ IF pc' = "engagement" /\ res' = "payload"
               THEN /\ seen_accounts_memory' =
                           seen_accounts_memory \cup {username'}
                    /\ new_accounts_found' = TRUE
               ELSE UNCHANGED <<seen_accounts_memory, new_accounts_found>>
       ELSE /\ pc' = "engagement"
            /\ UNCHANGED <<seen_accounts_memory, new_accounts_found, res,
                           trace, orders>>
    /\ metric_i' = 1
    /\ UNCHANGED <<cycle_count, QUANTITIES, startup, extractor, mailbox, M, ids, msgid, link,
                   history>>

\* username = link.split("/")[3], then the followers order for a new account
Followers ==
    /\ pc = "followers"
    /\ username' = UsernameOf(link)
    /\ IF IsNewAccount(username', seen_accounts_memory)
       THEN /\ PlaceOrder(FOLLOWERS_SERVICE_ID, FOLLOWERS_QUANTITY, "engagement")
            /\ IF pc' = "engagement"
               THEN /\ seen_accounts_memory' =
                           seen_accounts_memory \cup {username'}
                    /\ new_accounts_found' = TRUE
               ELSE UNCHANGED <<seen_accounts_memory, new_accounts_found>>
       ELSE /\ pc' = "engagement"
            /\ UNCHANGED <<seen_accounts_memory, new_accounts_found, res,
                           trace, orders>>
    /\ metric_i' = 1
    /\ UNCHANGED <<cycle_count, QUANTITIES, startup, extractor, mailbox, M, ids, msgid, link,
                   history>>

\* for metric, sid in SERVICES.items(): one iteration
Engagement ==
    /\ pc = "engagement"
    /\ metric_i <= Len(Metrics)
    /\ LET metric == Metrics[metric_i]
           sid == SERVICES[metric]
           qty == QuantityGet(QUANTITIES, metric)
           after == IF metric_i = Len(Metrics) THEN "store" ELSE "engagement"
       IN IF MetricEnabled(qty)
          THEN PlaceOrder(sid, qty, after)
          ELSE /\ pc' = after
               /\ UNCHANGED <<res, trace, orders>>
    /\ metric_i' = metric_i + 1
    /\ UNCHANGED <<cycle_count, seen_accounts_memory, QUANTITIES, startup, extractor, mailbox, M,
                   new_accounts_found, ids, msgid, link, username, history>>

\* M.store(msgid, "+FLAGS", "\\Seen") after the orders
Store ==
    /\ pc = "store"
    /\ StoreCall
    /\ UNCHANGED <<cycle_count, seen_accounts_memory, QUANTITIES, startup, extractor, M,
                   new_accounts_found, locals, orders, history>>

\* process_mailbox returns: its local variables are gone.
DropLocals ==
    /\ ids' = <<>> /\ msgid' = 0 /\ link' = NoLink /\ username' = ""
    /\ metric_i' = 1 /\ res' = "none"

\* The finally clause without its logout.
FinallyNoLogout ==
    /\ pc = "finally"
    /\ M' = "none"
    /\ pc' = "sleep"
    /\ DropLocals
    /\ UNCHANGED <<cycle_count, seen_accounts_memory, QUANTITIES, startup, extractor, mailbox,
                   new_accounts_found, trace, orders, history>>

\* finally: try: M.logout() except Exception: log; the summary; the return to
\* the loop, where M goes out of scope
Finally ==
    /\ pc = "finally"
    /\ \E ok \in BOOLEAN :
         Log(Ev("logout", 0, 0, NoLink, 0, IF ok THEN "OK" ELSE "raise"))
    /\ M' = "none"
    /\ pc' = "sleep"
    /\ DropLocals
    /\ UNCHANGED <<cycle_count, seen_accounts_memory, QUANTITIES, startup, extractor, mailbox,
                   new_accounts_found, orders, history>>

\* The usernames of the followers orders in a sequence of orders.
Boosted(os) ==
    { UsernameOf(os[i].link) : i \in { j \in DOMAIN os : os[j].sid = FOLLOWERS_SERVICE_ID } }

\* A restart that would find the set of the last process again.
RestartKeepingSet ==
    /\ pc = "sleep"
    /\ passes < MaxPasses
    /\ boosted_before' = boosted_before \cup Boosted(orders)
    /\ pc' = "start"
    /\ cycle_count' = 0
    /\ UNCHANGED seen_accounts_memory
    /\ new_accounts_found' = FALSE
    /\ DropLocals
    /\ trace' = <<>> /\ orders' = <<>>
    /\ pass0' = [seen |-> seen_accounts_memory', mailbox |-> mailbox]
    /\ UNCHANGED <<QUANTITIES, startup, extractor, mailbox, M, passes>>

\* The process is terminated from outside during its wait and started again:
\* the module is executed anew (seen_accounts_memory = set(), cycle_count = 0);
\* the mailbox is the server's and stays.
Restart ==
    /\ pc = "sleep"
    /\ passes < MaxPasses
    /\ boosted_before' = boosted_before \cup Boosted(orders)
    /\ pc' = "start"
    /\ cycle_count' = 0
    /\ seen_accounts_memory' = {}
    /\ new_accounts_found' = FALSE
    /\ DropLocals
    /\ trace' = <<>> /\ orders' = <<>>
    /\ pass0' = [seen |-> {}, mailbox |-> mailbox]
    /\ UNCHANGED <<QUANTITIES, startup, extractor, mailbox, M, passes>>

\* A step of the process itself.
Step ==
    \/ Startup
    \/ StartCycle
    \/ Connect
    \/ Login
    \/ Select
    \/ Search
    \/ SearchFailed
    \/ NextMessage
    \/ Fetch
    \/ Extract
    \/ StoreEmpty
    \/ Followers
    \/ Engagement
    \/ Store
    \/ Finally
    \/ Sleep

Next == Step \/ Restart

Spec == Init /\ [][Next]_vars

\* Every call of the mailbox and of the order API returns or raises, and the
\* wait ends: the process is never stuck in a step it can take.
LiveSpec == Spec /\ WF_vars(Step)

\* ------------------------------------------------- the link extractor alone
\* The hrefs of the documents: every host with every path, with and without
\* the fragment "#m".
Hosts ==
    {"rss.xcancel.com", "xcancel.com", "twitter.com", "x.com", "fixupx.com",
     "example.com"}

Paths ==
    { <<"alice", "status", "42">>, <<"bob", "status", "7">>,
      <<"i", "web", "status", "42">>, <<"about">> }

Hrefs == { Anchor(h, p, f) : h \in Hosts, p \in Paths, f \in {"", "#m"} }

\* soup.find_all("a", href=True): the anchors of a document, in document order
Documents == UNION { [1 .. n -> Hrefs] : n \in 0 .. MaxAnchors }

\* extract_feed_link_from_html(html) is called on a document, outside any pass
ExtractorInit ==
    /\ pc = "extractor"
    /\ html \in Documents
    /\ found = <<>>
    /\ cycle_count = 0
    /\ seen_accounts_memory = {}
    /\ QUANTITIES = SourceQuantities
    /\ env = [k \in Required |-> "value"]
    /\ exit_status = <<>>
    /\ mailbox = [m \in MsgIds |-> [body |-> [kind |-> "html", anchors |-> <<>>],
                                     seen |-> TRUE]]
    /\ M = "none"
    /\ new_accounts_found = FALSE
    /\ ids = <<>>
    /\ msgid = 0
    /\ link = NoLink
    /\ username = ""
    /\ metric_i = 1
    /\ res = "none"
    /\ trace = <<>>
    /\ orders = <<>>
    /\ pass0 = [seen |-> {}, mailbox |-> mailbox]
    /\ passes = 0
    /\ boosted_before = {}

\* one call of extract_feed_link_from_html on the document (at most two calls)
RunExtractor ==
    /\ pc = "extractor"
    /\ Len(found) < 2
    /\ found' = Append(found, extract_feed_link_from_html(html))
    /\ UNCHANGED <<pc, cycle_count, seen_accounts_memory, QUANTITIES, startup,
                   html, mailbox, M, new_accounts_found, locals, trace, orders,
                   history>>

ExtractorNext == RunExtractor

ExtractorSpec == ExtractorInit /\ [][ExtractorNext]_vars

\* ------------------------------------------------------------------- claims
Last(s) == s[Len(s)]

\* positions of the trace holding an event of kind ev for message m
Events(ev, m) == { i \in DOMAIN trace : trace[i].ev = ev /\ trace[i].msgid = m }

\* the pass has an event of kind ev with status st
Happened(ev, st) == \E i \in DOMAIN trace : trace[i].ev = ev /\ trace[i].st = st

\* the orders of this pass for message m and service sid
PassOrders(m, sid) == { i \in Events("order", m) : trace[i].sid = sid }

\* the orders of this process for message m and service sid
ProcessOrders(m, sid) ==
    { i \in DOMAIN orders : orders[i].msgid = m /\ orders[i].sid = sid }

\* the followers orders of this process for username u
FollowersOrders(u) ==
    { i \in DOMAIN orders : /\ orders[i].sid = FOLLOWERS_SERVICE_ID
                            /\ UsernameOf(orders[i].link) = u }

\* message m was fetched in this pass and a link was found in it
LinkFound(m) == \E i \in Events("extract", m) : trace[i].link # NoLink

\* message m was fetched in this pass and no link was found in it
NoLinkFound(m) == \E i \in Events("extract", m) : trace[i].link = NoLink

\* the pass is through with message m
Through(m) == m # msgid \/ pc \in {"next", "fetch", "finally", "sleep"}

ServiceIds == { SERVICES[Metrics[i]] : i \in DOMAIN Metrics }

\* C1: one running process issues at most one followers order per username;
\* the step that handles a link issues exactly one followers order and adds the
\* username when the username is not in the set, and issues none and leaves the
\* set alone when it is.
C1_FollowerDedup ==
    /\ [](\A u \in UserTokens : Cardinality(FollowersOrders(u)) <= 1)
    /\ [][pc = "followers" =>
            LET u == UsernameOf(link) IN
              IF u \notin seen_accounts_memory
              THEN /\ orders' = Append(orders,
                         Order(FOLLOWERS_SERVICE_ID, link, FOLLOWERS_QUANTITY, msgid))
                   /\ seen_accounts_memory' = seen_accounts_memory \cup {u}
              ELSE /\ orders' = orders
                   /\ seen_accounts_memory' = seen_accounts_memory]_vars

\* a second message of the same pass names a username that an earlier message
\* of the pass got a followers order for, and is past the followers step
C1_Witness ==
    /\ pc = "engagement"
    /\ metric_i = 1
    /\ \E i \in DOMAIN orders :
         /\ orders[i].sid = FOLLOWERS_SERVICE_ID
         /\ orders[i].msgid # msgid
         /\ UsernameOf(orders[i].link) = username
    /\ Events("order", msgid) = {}

\* C2 as stated: over all passes of a process, the order for a (metric,
\* message) pair is issued at most once.
C2_Original ==
    \A m \in MsgIds : \A sid \in ServiceIds :
       Cardinality(ProcessOrders(m, sid)) <= 1

\* C2, amended: within one pass the order for a (metric, message) pair is
\* issued at most once; a message that is marked read stays marked and no
\* order is issued for it any more.
C2_NoReplayOnceRead ==
    /\ [][Len(orders') > Len(orders) =>
            /\ ~mailbox[msgid].seen
            /\ Cardinality({ i \in DOMAIN trace' :
                               /\ trace'[i].ev = "order"
                               /\ trace'[i].msgid = msgid
                               /\ trace'[i].sid = Last(orders').sid }) = 1]_vars
    /\ [][\A m \in MsgIds : mailbox[m].seen => mailbox'[m].seen]_vars

\* the orders of a message were sent in a pass whose store did not mark the
\* message, and a later pass of the same process sent them again
C2_Witness ==
    \E m \in MsgIds : \E sid \in ServiceIds :
       /\ Cardinality(ProcessOrders(m, sid)) = 2
       /\ cycle_count = 2

\* C3 as stated: the set holds every username that got a followers order
\* before a restart.
C3_Original == boosted_before \subseteq seen_accounts_memory

\* C3, amended: the set lives in memory only.  A process that was just started
\* has the empty set, whatever earlier processes boosted; within a process
\* every username that got a followers order is in the set, also at the end of
\* a pass that ended by an exception.
C3_MemoryOnly ==
    /\ cycle_count = 0 => seen_accounts_memory = {}
    /\ pc = "sleep" =>
         \A u \in UserTokens :
            FollowersOrders(u) # {} => u \in seen_accounts_memory

\* after a restart, a username boosted by the earlier process got a second
\* followers order
C3_Witness ==
    \E u \in boosted_before : FollowersOrders(u) # {}

\* C4: when the metric loop of a message with a link is over, the pass has
\* sent, for each metric, exactly one order (service id, link, quantity) when
\* the metric's quantity is > 0 and none when it is <= 0.
C4_EngagementOrders ==
    pc = "store" =>
       \A k \in DOMAIN Metrics :
          LET sid == SERVICES[Metrics[k]]
              qty == QuantityGet(QUANTITIES, Metrics[k])
          IN IF qty > 0
             THEN /\ Cardinality(PassOrders(msgid, sid)) = 1
                  /\ \A i \in PassOrders(msgid, sid) :
                        trace[i].qty = qty /\ trace[i].link = link
             ELSE PassOrders(msgid, sid) = {}

\* the metric loop of a message is over under a catalog with disabled metrics
C4_Witness ==
    /\ pc = "store"
    /\ QUANTITIES # SourceQuantities
    /\ Cardinality(Events("order", msgid)) >= 2

\* C5 as stated: a fetched message without link is marked read once the pass
\* is through with it.
C5_Original ==
    \A m \in MsgIds : (NoLinkFound(m) /\ Through(m)) => mailbox[m].seen

\* C5, amended: for a fetched message without link no order is issued and the
\* set is left alone; the store of the message is attempted: when it is
\* answered OK the message is marked read, and unless it raises the pass goes
\* on with the next message.
C5_ExtractionEmpty ==
    /\ [](\A m \in MsgIds : NoLinkFound(m) => Events("order", m) = {})
    /\ [][(pc = "extract" /\ pc' # "finally" /\ link' = NoLink) =>
            /\ pc' = "store_empty"
            /\ orders' = orders
            /\ seen_accounts_memory' = seen_accounts_memory]_vars
    /\ [][pc = "store_empty" =>
            LET e == Last(trace') IN
              /\ orders' = orders
              /\ seen_accounts_memory' = seen_accounts_memory
              /\ e.msgid = msgid
              /\ e.ev \in {"store", "raise"}
              /\ (e.ev = "store" /\ e.st = "OK") =>
                    (mailbox' = MarkSeen(mailbox, msgid) /\ pc' = "next")
              /\ (e.ev = "store" /\ e.st = "NO") =>
                    (mailbox' = mailbox /\ pc' = "next")
              /\ e.ev = "raise" => (mailbox' = mailbox /\ pc' = "finally")]_vars

\* a message without link was marked read and the pass is at the fetch of the
\* next message
C5_Witness ==
    /\ pc = "fetch"
    /\ \E m \in MsgIds :
         /\ m # msgid
         /\ NoLinkFound(m)
         /\ mailbox[m].seen
         /\ Events("order", m) = {}

\* C6 as stated: whatever the outcomes of its orders, a message with a link is
\* marked read once the pass is through with it.
C6_Original ==
    \A m \in MsgIds : (LinkFound(m) /\ Through(m)) => mailbox[m].seen

\* C6, amended: create_jap_order never raises; after every order, whatever its
\* outcome, the pass goes on with the remaining metrics of the message and then
\* with the store of the message, which marks the message read when it is
\* answered OK.
C6_OrderFailuresAbsorbed ==
    /\ [](~Happened("raise", "order"))
    /\ [][Len(orders') > Len(orders) =>
            /\ res' \in {"payload", "raw_text", "error"}
            /\ pc' = IF metric_i' > Len(Metrics) THEN "store" ELSE "engagement"
            /\ msgid' = msgid]_vars
    /\ [][pc = "store" =>
            LET e == Last(trace') IN
              /\ e.msgid = msgid
              /\ e.ev \in {"store", "raise"}
              /\ (e.ev = "store" /\ e.st = "OK") => mailbox'[msgid].seen]_vars

\* the last order of a message ended with a network error and the message was
\* marked read
C6_Witness ==
    /\ pc = "next"
    /\ res = "error"
    /\ msgid \in MsgIds
    /\ mailbox[msgid].seen
    /\ Cardinality(Events("order", msgid)) >= 5

\* the fetch of message m was answered NO
FetchNotOK(m) == \E i \in Events("fetch", m) : trace[i].st = "NO"

\* the fetch of message m raised
FetchRaised(m) == \E i \in Events("raise", m) : trace[i].st = "fetch"

\* the fetch of message m was attempted in this pass
FetchAttempted(m) == Events("fetch", m) # {} \/ FetchRaised(m)

\* C7 as stated: when the fetch of a message fails, the messages listed after
\* it are still processed in the same pass.
C7_Original ==
    pc = "sleep" =>
       \A m \in MsgIds : (FetchNotOK(m) \/ FetchRaised(m)) =>
          \A n \in MsgIds :
             (n > m /\ ~pass0.mailbox[n].seen) => FetchAttempted(n)

\* C7, amended: a message whose fetch is answered with a status other than OK
\* is not marked read, gets no order, leaves the set alone, and the pass goes
\* on with the next message; a fetch that raises has the same effects on the
\* message but ends the pass.  Every search lists all unread messages.
C7_FetchNotOK ==
    /\ [](\A m \in MsgIds : (FetchNotOK(m) \/ FetchRaised(m)) =>
             /\ ~mailbox[m].seen
             /\ Events("order", m) = {}
             /\ Events("store", m) = {})
    /\ [][pc = "fetch" =>
            LET e == Last(trace') IN
              /\ seen_accounts_memory' = seen_accounts_memory
              /\ orders' = orders
              /\ mailbox' = mailbox
              /\ (e.ev = "fetch" /\ e.st = "NO") => (pc' = "next" /\ ids' = ids)
              /\ e.ev = "raise" => pc' = "finally"]_vars
    /\ [][(pc = "search" /\ pc' = "next") =>
            \A m \in MsgIds :
               ~mailbox[m].seen => \E k \in DOMAIN ids' : ids'[k] = m]_vars

\* the fetch of a message was answered NO and the next message of the pass
\* was processed up to its store
C7_Witness ==
    \E m \in MsgIds : \E n \in MsgIds :
       /\ n > m
       /\ FetchNotOK(m)
       /\ ~mailbox[m].seen
       /\ Events("store", n) # {}

\* C8: a pass in which the connection or the login fails fetches no message,
\* sends no order, marks no message and leaves the set alone, and the process
\* goes on (to the finally clause and the wait).
C8_ConnectLoginFailure ==
    (Happened("raise", "connect") \/ Happened("raise", "login")) =>
       /\ \A i \in DOMAIN trace :
             trace[i].ev \notin {"search", "fetch", "extract", "order", "store"}
       /\ mailbox = pass0.mailbox
       /\ seen_accounts_memory = pass0.seen
       /\ pc \in {"finally", "sleep"}

\* the login of a second pass failed, after a first pass that added a username
C8_Witness ==
    /\ pc = "sleep"
    /\ Happened("raise", "login")
    /\ cycle_count = 2
    /\ seen_accounts_memory # {}

\* C9: the process never stops by itself; every pass that was started reaches
\* the wait, and every wait is followed by the start of another pass (as long
\* as the model follows passes).
C9_PollLoopLiveness ==
    /\ [](pc # "crashed")
    /\ (pc \notin {"start", "exited", "loop", "sleep"}) ~> (pc = "sleep")
    /\ (pc = "sleep" /\ passes < MaxPasses) ~> (pc = "connect")

\* a pass ended by an exception, and the process is at its wait with another
\* pass to come
C9_Witness ==
    /\ pc = "sleep"
    /\ passes < MaxPasses
    /\ \E i \in DOMAIN trace : trace[i].ev = "raise"

\* the pass has an event of kind ev
Occurred(ev) == \E i \in DOMAIN trace : trace[i].ev = ev

\* C10: a pass that got a connection has called logout before it ends, on
\* every way out; the pass ends at the wait also when logout raises; between
\* passes no connection object is left.
C10_ConnectionReleased ==
    /\ (pc = "sleep" /\ Occurred("connect")) => Occurred("logout")
    /\ pc \in {"start", "exited", "loop", "connect", "sleep"} => M = "none"
    /\ pc \notin {"start", "exited", "loop", "connect", "sleep"} => M # "none"
    /\ pc # "crashed"

\* a pass was ended by an exception while a message was processed, the logout
\* of the finally clause raised, and the pass ended at the wait
C10_Witness ==
    /\ pc = "sleep"
    /\ \E i \in DOMAIN trace :
         trace[i].ev = "raise" /\ trace[i].st \in {"fetch", "content", "store"}
    /\ Last(trace).ev = "logout"
    /\ Last(trace).st = "raise"

\* C11: a pass whose listing of the unread messages fails (the search is
\* answered with a status other than OK, or raises) fetches no message, sends
\* no order, marks no message read and leaves the set as it was before the
\* pass; the pass goes to its end.  (The set is nowhere written to a file.)
C11_ListingFailure ==
    (Happened("search", "NO") \/ Happened("raise", "search")) =>
       /\ \A i \in DOMAIN trace :
             trace[i].ev \notin {"fetch", "extract", "order", "store"}
       /\ mailbox = pass0.mailbox
       /\ seen_accounts_memory = pass0.seen
       /\ pc \in {"search_failed", "finally", "sleep"}

\* the listing of a second pass was refused while a message was unread, after a
\* first pass that added a username, and the pass is over
C11_Witness ==
    /\ pc = "sleep"
    /\ Happened("search", "NO")
    /\ cycle_count = 2
    /\ seen_accounts_memory # {}
    /\ \E m \in MsgIds : ~mailbox[m].seen

\* one of the three required settings is absent (not set, or empty)
Absent(k) == env[k] = NoValue \/ env[k] = ""

\* C12: when the mailbox user, the mailbox password or the API key is absent,
\* the start-up step ends the process with a non-zero exit status, before the
\* poll loop: no pass is started, no connection is opened, no order is sent.
\* When all three are present the start-up step enters the poll loop and the
\* process never exits by itself.
C12_ConfigurationFatal ==
    /\ []((\E k \in Required : Absent(k)) =>
            /\ pc \in {"start", "exited"}
            /\ cycle_count = 0 /\ passes = 0
            /\ M = "none"
            /\ trace = <<>> /\ orders = <<>>
            /\ \A m \in MsgIds : ~mailbox[m].seen)
    /\ []((\A k \in Required : ~Absent(k)) =>
            (pc \notin {"exited", "crashed"} /\ exit_status = <<>>))
    /\ [](pc = "exited" => (Len(exit_status) = 1 /\ exit_status[1] # 0))
    /\ [][pc = "start" =>
            IF \E k \in Required : Absent(k)
            THEN pc' = "exited" /\ exit_status' # <<>>
            ELSE pc' = "loop"]_vars
    /\ [][pc = "exited" => pc' = "exited"]_vars

\* the process has exited with status 1 because only the API key is absent
C12_Witness ==
    /\ pc = "exited"
    /\ exit_status = <<1>>
    /\ Absent("JAP_API_KEY")
    /\ ~Absent("IMAP_USER") /\ ~Absent("IMAP_PASS")

\* the fetch of message m was answered OK in this pass
FetchedOK(m) == \E i \in Events("fetch", m) : trace[i].st = "OK"

\* C13: the content selection never ends the pass: for every message that was
\* fetched, whatever its structure, content is selected and the extractor is
\* run on it, so that once the pass is through with the message the pass has
\* the message's extraction (with or without link).
C13_ContentSelectionTotal ==
    /\ ~Happened("raise", "content")
    /\ \A m \in MsgIds :
          (FetchedOK(m) /\ Through(m)) => (LinkFound(m) \/ NoLinkFound(m))

\* every call of the mailbox server in this pass succeeded: the connection and
\* the listing were made, no call was answered NO and none raised
MailboxCallsSucceeded ==
    /\ Happened("search", "OK")
    /\ \A i \in DOMAIN trace :
          /\ trace[i].st # "NO"
          /\ trace[i].ev = "raise" =>
                trace[i].st \notin {"connect", "login", "select", "search",
                                    "fetch", "store"}

\* C14: every unread message is handled: a pass in which every call of the
\* mailbox server succeeds has, at its end, marked read every message of the
\* mailbox, so no message (without link, or with content that cannot be
\* parsed) keeps the messages listed after it from being processed.
C14_EveryMessageHandled ==
    (pc = "sleep" /\ MailboxCallsSucceeded) => \A m \in MsgIds : mailbox[m].seen

\* The three shapes as the claim names them.
\* rss-mirror with #m: https://rss.xcancel.com/{username}/status/{id}#m
ShapeFeed(href) ==
    /\ href.host = "rss.xcancel.com"
    /\ Len(href.path) = 3 /\ href.path[2] = "status"
    /\ href.frag = "#m"

\* mirror without rss prefix: https://xcancel.com/{username}/status/{id}
ShapeMirror(href) ==
    /\ href.host = "xcancel.com"
    /\ Len(href.path) = 3 /\ href.path[2] = "status"

\* direct: https://twitter.com/{username}/status/{id}, https://x.com/...
ShapeDirect(href) ==
    /\ href.host \in {"twitter.com", "x.com"}
    /\ Len(href.path) = 3 /\ href.path[2] = "status"

Recognised(href) == ShapeFeed(href) \/ ShapeMirror(href) \/ ShapeDirect(href)

\* the positions of the document's anchors that have one of the three shapes
RecognisedAt(doc) == { i \in DOMAIN doc : Recognised(doc[i]) }

\* the canonical link of the first anchor with one of the three shapes
FirstRecognised(doc) ==
    LET first == CHOOSE i \in RecognisedAt(doc) :
                    \A k \in RecognisedAt(doc) : i <= k
    IN <<"https:", "", "x.com", doc[first].path[1], "status", doc[first].path[3]>>

\* C15: every run of the extractor on a document returns the canonical link
\* https://x.com/{username}/status/{id} of the first anchor, in document
\* order, that has one of the three shapes, whichever shape it is and whatever
\* the later anchors are; it returns not-found exactly when no anchor has one
\* of the shapes; two runs on the same document return the same.
C15_FirstMatchCanonical ==
    /\ \A i \in DOMAIN found :
          found[i] = IF RecognisedAt(html) = {} THEN NoLink
                     ELSE FirstRecognised(html)
    /\ \A i \in DOMAIN found : found[i] = found[1]

\* the place of an order in the orders of one message: the followers order,
\* then the metrics in the order of SERVICES
OrderRank(sid) ==
    IF sid = FOLLOWERS_SERVICE_ID THEN 0
    ELSE CHOOSE k \in DOMAIN Metrics : SERVICES[Metrics[k]] = sid

\* event e may come right after event prev in the history of a pass
Follows(prev, e) ==
    CASE e.ev = "fetch" ->
           \/ prev.ev = "search" /\ prev.st = "OK"
           \/ prev.ev = "store" /\ prev.msgid < e.msgid
           \/ prev.ev = "fetch" /\ prev.st = "NO" /\ prev.msgid < e.msgid
      [] e.ev = "extract" ->
           prev.ev = "fetch" /\ prev.st = "OK" /\ prev.msgid = e.msgid
      [] e.ev = "order" ->
           /\ prev.msgid = e.msgid
           /\ e.link # NoLink
           /\ prev.link = e.link
           /\ \/ prev.ev = "extract"
              \/ prev.ev = "order" /\ OrderRank(prev.sid) < OrderRank(e.sid)
      [] e.ev = "store" ->
           /\ prev.msgid = e.msgid
           /\ prev.ev \in {"extract", "order"}
           /\ prev.ev = "extract" => prev.link = NoLink
      [] OTHER -> TRUE

\* C16 as stated: an order for a message is sent only when every message
\* listed before it in the pass was marked read or skipped (its fetch was not
\* OK).
C16_Original ==
    \A m \in MsgIds :
       (m < msgid /\ Events("order", msgid) # {} /\ ~pass0.mailbox[m].seen) =>
          (mailbox[m].seen \/ FetchNotOK(m))

\* C16, amended: the messages of a pass are taken one at a time in the order of
\* the listing; the events of a message with a link are its fetch, its
\* extraction, the followers order (if any), the engagement orders in the
\* order of SERVICES, then its store; no order is sent for a message that is
\* marked read; and the first event of the next message comes only after the
\* store of the current one was attempted (answered OK or NO) or its fetch
\* was not OK.
C16_EventOrdering ==
    /\ [][\A k \in (Len(trace) + 1) .. Len(trace') :
            k > 1 => Follows(trace'[k - 1], trace'[k])]_vars
    /\ [][(pc = "next" /\ pc' = "fetch") =>
            (msgid' = Head(ids) /\ ids' = Tail(ids))]_vars
    /\ [][Len(orders') > Len(orders) =>
            (~mailbox[msgid].seen /\ Last(orders').msgid = msgid)]_vars

\* the second message of a pass has got its followers order and an engagement
\* order, after the first message, which has a link too, got its orders and
\* its store
C16_Witness ==
    /\ pc = "engagement"
    /\ msgid = 2
    /\ Cardinality(Events("order", 2)) >= 2
    /\ Cardinality(Events("order", 1)) >= 2
    /\ Events("store", 1) # {}
    /\ \E i \in Events("order", 2) : trace[i].sid = FOLLOWERS_SERVICE_ID

\* C17: within a process the set only grows: every step other than the start
\* of a new process (a failed pass, an order that fails, an exception while a
\* message is processed, the start of a pass) leaves every username of the
\* set in the set.
C17_SeenMonotone ==
    [][(pc # "sleep" \/ pc' # "start") =>
          seen_accounts_memory \subseteq seen_accounts_memory']_vars

\* the second pass of a process ended by an exception while a message was
\* processed, and the set still holds the username the first pass added
C17_Witness ==
    /\ pc = "sleep"
    /\ cycle_count = 2
    /\ \E i \in DOMAIN trace :
          trace[i].ev = "raise" /\ trace[i].st \in {"fetch", "content", "store"}
    /\ pass0.seen # {}
    /\ pass0.seen \subseteq seen_accounts_memory

\* C18: a username is in the set exactly when this process has sent a
\* followers order for it, whatever the outcome of the order: the step that
\* sends the followers order adds the username also when the order ends with
\* an error or an unparsable answer, no later step takes it out, and no
\* followers order is sent for a username of the set.
C18_SeenMeansAttempted ==
    /\ [](Boosted(orders) = seen_accounts_memory)
    /\ [][(pc = "followers" /\ Len(orders') > Len(orders)) =>
            /\ res' \in {"payload", "raw_text", "error"}
            /\ Last(orders').sid = FOLLOWERS_SERVICE_ID
            /\ UsernameOf(link) \notin seen_accounts_memory
            /\ seen_accounts_memory' =
                  seen_accounts_memory \cup {UsernameOf(link)}]_vars
    /\ [][(pc \in {"finally", "loop"} /\ pc' \in {"sleep", "connect"}) =>
            seen_accounts_memory' = seen_accounts_memory]_vars

\* the followers order of a new username has just ended with an error, and
\* the username is in the set
C18_Witness ==
    /\ pc = "engagement"
    /\ metric_i = 1
    /\ res = "error"
    /\ orders # <<>>
    /\ Last(orders).sid = FOLLOWERS_SERVICE_ID
    /\ Last(orders).msgid = msgid
    /\ username \in seen_accounts_memory

\* the logout calls of this pass
Logouts == { i \in DOMAIN trace : trace[i].ev = "logout" }

\* C19: a pass calls logout exactly once, on every way out, the failed listing
\* included, and never on a connection it has logged out already.
C19_SingleLogout ==
    /\ Cardinality(Logouts) <= 1
    /\ (pc = "sleep" /\ Occurred("connect")) => Cardinality(Logouts) = 1
    /\ pc = "finally" => M # "LOGOUT"

====
